---- MODULE Spec2Model ----
(***************************************************************************)
(* A model of optimum/habana/distributed/serialization.py: the adapter     *)
(* registry, the lazy safetensors store, load_state_dict (the checkpoint   *)
(* resolver), the TP copy functions and load_state_dict_into_model.        *)
(*                                                                         *)
(* The module holds one group of variables per component and one           *)
(* specification per component; a component's actions leave the other      *)
(* groups unchanged.                                                       *)
(***************************************************************************)
EXTENDS Integers, Sequences, FiniteSets, TLC

VARIABLES
    adapters,       \* __adapters: architecture -> insertion-ordered <<source, adapter>> pairs
    reg_call,       \* the last registry call and its outcome
    first_bound,    \* history: the adapter of the first successful registration of a pair
    store,          \* LazySafetensorsDict.data: key -> thunk or resolved tensor
    was_set,        \* history: the keys set_lazy_tensor has been called for
    io_reads,       \* history: _get_safetensors_item calls per key
    get_calls,      \* history: __getitem__ calls per key
    first_value,    \* history: what the first read of a key returned
    file_gen,       \* the generation of the safetensors file on disk
    lazy_call,      \* the last store call and what it returned
    lsd_args,       \* the arguments every rank calls load_state_dict with
    lsd_out,        \* rank -> what that rank's load_state_dict call did
    tp_args,        \* the sharding kind, source tensor and destination shape of a TP copy
    tp_param,       \* rank -> that rank's destination parameter after the copy
    ld_args,        \* the arguments of the load_state_dict_into_model call
    state_dict,     \* the view being consumed: the maps of the ChainMap, or one mapping
    sd_keys,        \* list(state_dict.keys()) as taken before the loop
    ld_pos,         \* the position in sd_keys of the key the loop is at
    used_keys,      \* used_keys
    pc,             \* "loop", "Done" (returned) or "Aborted" (an exception left the call)
    ld_error,       \* the exception that left the call
    ld_result,      \* what the call returned
    writes,         \* history: the copies made into the model's parameters
    diagnostics,    \* history: every key appended to an unused_params list
    handled,        \* history: the canonical keys handed to _load_partial_state_dict
    iterations,     \* history: what each loop iteration did
    ld_reads        \* history: the thunks resolved, as <<map, key>>

regVars  == <<adapters, reg_call, first_bound>>
lazyVars == <<store, was_set, io_reads, get_calls, first_value, file_gen, lazy_call>>
lsdVars  == <<lsd_args, lsd_out>>
tpVars   == <<tp_args, tp_param>>
ldVars   == <<ld_args, state_dict, sd_keys, ld_pos, used_keys, pc, ld_error, ld_result,
              writes, diagnostics, handled, iterations, ld_reads>>
vars     == <<regVars, lazyVars, lsdVars, tpVars, ldVars>>

\* what the actions of one component leave unchanged
notReg  == <<lazyVars, lsdVars, tpVars, ldVars>>
notLazy == <<regVars, lsdVars, tpVars, ldVars>>
notLsd  == <<regVars, lazyVars, tpVars, ldVars>>
notTp   == <<regVars, lazyVars, lsdVars, ldVars>>
notLd   == <<regVars, lazyVars, lsdVars, tpVars>>

None == "None"

\* bounds of the model
MaxReads == 3
MaxWorld == 3
MaxFiles == 3
MaxDim   == 4
OtherDim == 2
MaxEntries == 2

(***************************************************************************)
(* Python helpers                                                          *)
(***************************************************************************)
\* F applied to the value of v, which is computed once
With(v, F(_)) == CHOOSE r \in {F(x) : x \in {v}} : TRUE

Range(s) == {s[i] : i \in DOMAIN s}

\* dict.keys() / "k in d" of an insertion-ordered dict held as a sequence of pairs
PairKeys(d) == [i \in DOMAIN d |-> d[i][1]]

HasKey(d, k) == \E i \in DOMAIN d : d[i][1] = k

Lookup(d, k) == d[CHOOSE i \in DOMAIN d : d[i][1] = k][2]

(***************************************************************************)
(* Checkpoint keys, tensors and state dicts                                *)
(*                                                                         *)
(* A key is the sequence of its dotted segments (key.split(".")).  A state *)
(* dict is a function from a set of keys to tensors.                       *)
(***************************************************************************)
KHead       == <<"head", "weight">>
KHeadBogus  == <<"head", "bogus">>
KBogus      == <<"bogus", "weight">>
KPartial    == <<"head", "bogus", "weight">>
KQuery      == <<"layers", "0", "query", "weight">>
KQueryBias  == <<"layers", "0", "query", "bias">>
KDense      == <<"layers", "0", "dense", "weight">>
KDenseBias  == <<"layers", "0", "dense", "bias">>
KEmb        == <<"layers", "0", "emb", "weight">>
KNorm       == <<"layers", "0", "norm", "weight">>
KIndex      == <<"layers", "1", "query", "weight">>
KNotInt     == <<"layers", "x", "weight">>
\* raw keys of a checkpoint in a foreign format
KRawHead    == <<"model", "head", "weight">>
KRawQ       == <<"layers", "0", "q", "weight">>
KRawK       == <<"layers", "0", "k", "weight">>

EmptySd == [k \in {} |-> None]

\* A tensor is known by where it was read from; a fused tensor by its parts.
Tensor(file, key) ==
    [callable |-> FALSE, file |-> file, key |-> key, gen |-> "gen1", parts |-> <<>>]

FusedTensor(parts) ==
    [callable |-> FALSE, file |-> None, key |-> <<>>, gen |-> None, parts |-> parts]

SdOf(keys, file) == [k \in keys |-> Tensor(file, k)]

(***************************************************************************)
(* Adapter plugins.  An adapter maps a raw state dict to a canonical one   *)
(* or raises FusableWeightsMissingError naming the raw keys it still       *)
(* needs.  The registry holds adapters by name; the plugins modelled are   *)
(*   "rename": strips a leading "model" segment;                           *)
(*   "fuse"  : fuses the raw q and k weights of a layer into its query     *)
(*             weight, and asks for whichever of the two is missing;       *)
(*   "greedy": as "fuse", but asks again on every call that lacks the raw  *)
(*             head weight as well, naming it only once q and k are there. *)
(***************************************************************************)
AdapterNames == {"rename", "fuse", "greedy"}

FuseGroup == {KRawQ, KRawK}

Returned(sd) == [raised |-> FALSE, sd |-> sd, missing_weights |-> <<>>]

FusableWeightsMissingError(missing_weights) ==
    [raised |-> TRUE, sd |-> EmptySd, missing_weights |-> missing_weights]

Identity(sd) == Returned(sd)

Canonical(k) == IF Len(k) > 1 /\ k[1] = "model" THEN Tail(k) ELSE k

Rename(sd) ==
    Returned([c \in {Canonical(k) : k \in DOMAIN sd} |->
                 sd[CHOOSE k \in DOMAIN sd : Canonical(k) = c]])

SeqOfKeys(S) ==
    \* the keys of S in a fixed order (the order the plugin names them in)
    LET order == <<KRawQ, KRawK, KRawHead>>
        idx   == {i \in DOMAIN order : order[i] \in S}
        F[n \in 0..Len(order)] ==
            IF n = 0 THEN <<>>
            ELSE IF n \in idx THEN Append(F[n - 1], order[n]) ELSE F[n - 1]
    IN F[Len(order)]

Fuse(sd) ==
    LET have == DOMAIN sd \cap FuseGroup
        rest == DOMAIN sd \ FuseGroup
    IN IF have = {} THEN Rename(sd)
       ELSE IF have # FuseGroup THEN FusableWeightsMissingError(SeqOfKeys(FuseGroup \ have))
       ELSE Returned([c \in {KQuery} \cup {Canonical(k) : k \in rest} |->
                        IF c = KQuery THEN FusedTensor(<<sd[KRawQ], sd[KRawK]>>)
                        ELSE sd[CHOOSE k \in rest : Canonical(k) = c]])

Greedy(sd) ==
    LET have == DOMAIN sd \cap FuseGroup
    IN IF have = {} THEN Rename(sd)
       ELSE IF have # FuseGroup THEN FusableWeightsMissingError(SeqOfKeys(FuseGroup \ have))
       ELSE IF KRawHead \notin DOMAIN sd THEN FusableWeightsMissingError(<<KRawHead>>)
       ELSE Fuse(sd)

ApplyAdapter(adapter, sd) ==
    CASE adapter = "identity" -> Identity(sd)
      [] adapter = "rename"   -> Rename(sd)
      [] adapter = "fuse"     -> Fuse(sd)
      [] adapter = "greedy"   -> Greedy(sd)

(***************************************************************************)
(* Adapter registry: register_adapter, list_sources, _get_adapter,         *)
(* get_adapted                                                             *)
(***************************************************************************)
Architectures == {"llama", "gpt"}
Sources       == {"hf", "meta"}

\* the state dicts handed to get_adapted
AdaptInputs ==
    {EmptySd, SdOf({KHead}, "f"), SdOf({KRawHead}, "f"), SdOf({KRawQ}, "f"),
     SdOf({KRawQ, KRawK}, "f")}

RegIdle == [op |-> "none", architecture |-> None, source |-> None, adapter |-> None,
            state_dict |-> EmptySd, outcome |-> None]

\* "sources = {}; if architecture in __adapters: sources = __adapters[architecture]"
SourcesOf(reg, architecture) ==
    IF architecture \in DOMAIN reg THEN reg[architecture] ELSE <<>>

IsBound(reg, architecture, source) == HasKey(SourcesOf(reg, architecture), source)

\* the duplicate check of register_adapter: TRUE when KeyError is raised
RegisterNoCheck(reg, architecture, source) == FALSE

RegisterRaises(reg, architecture, source) ==
    HasKey(SourcesOf(reg, architecture), source)

\* "sources[source] = adapter; __adapters[architecture] = sources"
Registered(reg, architecture, source, adapter) ==
    LET sources == SourcesOf(reg, architecture)
        updated == IF HasKey(sources, source)
                   THEN [i \in DOMAIN sources |->
                            IF sources[i][1] = source THEN <<source, adapter>>
                            ELSE sources[i]]
                   ELSE Append(sources, <<source, adapter>>)
    IN [a \in DOMAIN reg \cup {architecture} |->
           IF a = architecture THEN updated ELSE reg[a]]

register_adapter(architecture, source, adapter) ==
    /\ IF RegisterRaises(adapters, architecture, source)
       THEN /\ reg_call' = [RegIdle EXCEPT !.op = "register_adapter",
                               !.architecture = architecture, !.source = source,
                               !.adapter = adapter, !.outcome = "KeyError"]
            /\ UNCHANGED <<adapters, first_bound>>
       ELSE /\ adapters' = Registered(adapters, architecture, source, adapter)
            /\ reg_call' = [RegIdle EXCEPT !.op = "register_adapter",
                               !.architecture = architecture, !.source = source,
                               !.adapter = adapter, !.outcome = "ok"]
            /\ first_bound' =
                   IF first_bound[<<architecture, source>>] = None
                   THEN [first_bound EXCEPT ![<<architecture, source>>] = adapter]
                   ELSE first_bound
    /\ UNCHANGED notReg

ListSourcesOf(reg, architecture) ==
    IF architecture \notin DOMAIN reg THEN <<>> ELSE PairKeys(reg[architecture])

list_sources(architecture) ==
    /\ reg_call' = [RegIdle EXCEPT !.op = "list_sources", !.architecture = architecture,
                       !.outcome = ListSourcesOf(adapters, architecture)]
    /\ UNCHANGED <<adapters, first_bound, notReg>>

\* _get_adapter: the name of the adapter, "identity" for "lambda x: x"
GetAdapterAnySource(reg, architecture, source) ==
    IF architecture \notin DOMAIN reg \/ reg[architecture] = <<>>
    THEN "identity"
    ELSE IF source # None /\ HasKey(reg[architecture], source)
         THEN Lookup(reg[architecture], source)
         ELSE reg[architecture][1][2]

GetAdapter(reg, architecture, source) ==
    IF source = None \/ architecture \notin DOMAIN reg
          \/ ~HasKey(reg[architecture], source)
    THEN "identity"
    ELSE Lookup(reg[architecture], source)

GetAdapted(reg, architecture, source, sd) ==
    IF DOMAIN sd = {} THEN Returned(sd)
    ELSE ApplyAdapter(GetAdapter(reg, architecture, source), sd)

get_adapted(architecture, source, sd) ==
    /\ reg_call' = [RegIdle EXCEPT !.op = "get_adapted", !.architecture = architecture,
                       !.source = source, !.state_dict = sd,
                       !.outcome = GetAdapted(adapters, architecture, source, sd)]
    /\ UNCHANGED <<adapters, first_bound, notReg>>

(***************************************************************************)
(* LazySafetensorsDict: a UserDict whose values are thunks until read.     *)
(* An entry of .data is a thunk (callable) or a tensor.  The operators     *)
(* return the new .data, the value handed back and the file reads made.    *)
(***************************************************************************)
LazyKeys == {KHead, KQuery}

Thunk(key, file) ==
    [callable |-> TRUE, file |-> file, key |-> key, gen |-> None, parts |-> <<>>]

\* _get_safetensors_item: opens the file and reads the tensor as it is on disk now
GetSafetensorsItem(key, file, gen) == [Tensor(file, key) EXCEPT !.gen = gen]

\* set_lazy_tensor: super().__setitem__(key, lambda: ...)
SetLazyTensor(data, key, file) ==
    [k \in DOMAIN data \cup {key} |-> IF k = key THEN Thunk(key, file) ELSE data[k]]

\* the values a call hands back that are no tensor: a raised KeyError, and the
\* marker of MutableMapping.pop for "no default given"
KeyError == [FusedTensor(<<>>) EXCEPT !.gen = "KeyError"]

NoDefault == [FusedTensor(<<>>) EXCEPT !.gen = "NoDefault"]

\* None, where a tensor may stand
NoneValue == [FusedTensor(<<>>) EXCEPT !.gen = "None"]

\* __getitem__ without "super().__setitem__(key, lazy_tensor)"
GetItemNoMemo(data, key, gen) ==
    IF key \notin DOMAIN data
    THEN [data |-> data, value |-> KeyError, reads |-> <<>>]
    ELSE IF data[key].callable
         THEN [data |-> data, value |-> GetSafetensorsItem(key, data[key].file, gen),
               reads |-> <<key>>]
         ELSE [data |-> data, value |-> data[key], reads |-> <<>>]

\* LazySafetensorsDict.__getitem__
GetItem(data, key, gen) ==
    IF key \notin DOMAIN data
    THEN [data |-> data, value |-> KeyError, reads |-> <<>>]
    ELSE IF data[key].callable
         THEN LET lazy_tensor == GetSafetensorsItem(key, data[key].file, gen)
              IN [data |-> [data EXCEPT ![key] = lazy_tensor], value |-> lazy_tensor,
                  reads |-> <<key>>]
         ELSE [data |-> data, value |-> data[key], reads |-> <<>>]

\* __delitem__
DelItem(data, key) == [k \in DOMAIN data \ {key} |-> data[k]]

\* MutableMapping.pop, which UserDict inherits: "value = self[key]" goes through
\* __getitem__; on KeyError the default is returned (or KeyError raised without one)
Pop(data, key, default, gen) ==
    LET got == GetItem(data, key, gen)
    IN IF got.value = KeyError
       THEN [data |-> data, value |-> IF default = NoDefault THEN KeyError ELSE default,
             reads |-> <<>>]
       ELSE [data |-> DelItem(got.data, key), value |-> got.value, reads |-> got.reads]

\* __contains__ and keys() look at .data only
Contains(data, key) == key \in DOMAIN data

LazyIdle == [op |-> "none", key |-> <<>>, value |-> NoDefault, found |-> FALSE]

CountReads(reads, key) == Cardinality({i \in DOMAIN reads : reads[i] = key})

Recorded(got, key) ==
    /\ store' = got.data
    /\ io_reads' = [io_reads EXCEPT ![key] = @ + Len(got.reads)]
    /\ get_calls' = [get_calls EXCEPT ![key] = @ + 1]
    /\ first_value' = IF first_value[key] = NoDefault /\ got.value # KeyError
                      THEN [first_value EXCEPT ![key] = got.value]
                      ELSE first_value

\* _load_safetensors_state_dict sets each key of the file once
set_lazy_tensor(key) ==
    /\ key \notin was_set
    /\ store' = SetLazyTensor(store, key, "f")
    /\ was_set' = was_set \cup {key}
    /\ lazy_call' = [LazyIdle EXCEPT !.op = "set_lazy_tensor", !.key = key]
    /\ UNCHANGED <<io_reads, get_calls, first_value, file_gen, notLazy>>

getitem(key) ==
    /\ get_calls[key] < MaxReads
    /\ LET got == GetItem(store, key, file_gen)
       IN /\ Recorded(got, key)
          /\ lazy_call' = [LazyIdle EXCEPT !.op = "getitem", !.key = key,
                              !.value = got.value]
    /\ UNCHANGED <<was_set, file_gen, notLazy>>

pop(key) ==
    /\ get_calls[key] < MaxReads
    /\ LET got == Pop(store, key, NoDefault, file_gen)
       IN /\ Recorded(got, key)
          /\ lazy_call' = [LazyIdle EXCEPT !.op = "pop", !.key = key,
                              !.value = got.value]
    /\ UNCHANGED <<was_set, file_gen, notLazy>>

contains(key) ==
    /\ lazy_call' = [LazyIdle EXCEPT !.op = "contains", !.key = key,
                        !.found = Contains(store, key)]
    /\ UNCHANGED <<store, was_set, io_reads, get_calls, first_value, file_gen, notLazy>>

\* the environment: the checkpoint file is rewritten on disk
FileRewritten ==
    /\ file_gen = "gen1"
    /\ file_gen' = "gen2"
    /\ UNCHANGED <<store, was_set, io_reads, get_calls, first_value, lazy_call, notLazy>>

(***************************************************************************)
(* load_state_dict: the checkpoint resolver                                *)
(*                                                                         *)
(* A file is its stem and its suffix; the files of a directory are named   *)
(* model-<stem><suffix>, so sorted() orders them by stem and then by       *)
(* suffix (".bin" < ".pth" < ".safetensors").                              *)
(***************************************************************************)
Suffixes == <<".bin", ".pth", ".safetensors">>

File(stem, suffix) == [stem |-> stem, suffix |-> suffix]

SuffixRank(suffix) == CHOOSE i \in DOMAIN Suffixes : Suffixes[i] = suffix

\* Path.__lt__ on two files of one directory
After(f, g) ==
    g.stem < f.stem \/ (f.stem = g.stem /\ SuffixRank(f.suffix) > SuffixRank(g.suffix))

Before(f, g) ==
    f.stem < g.stem \/ (f.stem = g.stem /\ SuffixRank(f.suffix) < SuffixRank(g.suffix))

\* the directories: n files of each suffix
FilesOf(suffix, n) == {File(i, suffix) : i \in 1..n}

Directories ==
    {FilesOf(".safetensors", ns) \cup FilesOf(".bin", nb) \cup FilesOf(".pth", np) :
        ns \in 0..MaxFiles, nb \in {0, 1, MaxFiles}, np \in 0..1}

\* model_path: None, a file, a directory (with the glob fragment that followed
\* it in the string, "" when there was none), or a path that does not exist
PathNone == [kind |-> "None", files |-> {}, glob |-> ""]

PathMissing == [kind |-> "missing", files |-> {}, glob |-> ""]

PathFile(f) == [kind |-> "file", files |-> {f}, glob |-> ""]

PathDir(files, glob) == [kind |-> "dir", files |-> files, glob |-> glob]

Paths ==
    {PathNone, PathMissing, PathFile(File(1, ".safetensors")), PathFile(File(1, ".bin"))}
        \cup {PathDir(d, g) : d \in Directories, g \in {"", "*.bin"}}

SourceHints == {None, "meta", "hf"}
Strategies  == {None, "tp", "fsdp", "hsdp"}
Shardings   == {None, "layer", "tp", "fsdp"}
Devices     == {"cpu", "meta"}

LsdArgs ==
    [model_path : Paths, source : SourceHints, distributed_strategy : Strategies,
     checkpoint_sharding : Shardings, initial_device : Devices,
     world_size : 1..MaxWorld]

\* Path.glob with a "*<suffix>" pattern: the matching files, as a set (the order
\* the file system lists them in is not defined)
PatternSuffix(pattern) ==
    CASE pattern = "*.bin"         -> ".bin"
      [] pattern = "*.pth"         -> ".pth"
      [] pattern = "*.safetensors" -> ".safetensors"

Glob(files, pattern) == {f \in files : f.suffix = PatternSuffix(pattern)}

\* lines 173-180 with the default order for every source
GlobPatternListNoSource(glob_pattern, source) ==
    IF glob_pattern # "" THEN <<glob_pattern>>
    ELSE <<"*.safetensors", "*.pth", "*.bin">>

\* lines 173-180
GlobPatternList(glob_pattern, source) ==
    IF glob_pattern # "" THEN <<glob_pattern>>
    ELSE IF source = "meta" THEN <<"*.pth", "*.safetensors">>
    ELSE IF source = "hf" THEN <<"*.bin", "*.safetensors">>
    ELSE <<"*.safetensors", "*.pth", "*.bin">>

\* lines 181-185: the index of the first pattern with a match, 0 when none has one
FirstMatch(files, patterns) ==
    LET hits == {i \in DOMAIN patterns : Glob(files, patterns[i]) # {}}
    IN IF hits = {} THEN 0 ELSE CHOOSE i \in hits : \A j \in hits : i <= j

\* the orders list(model_path.glob(...)) may come in
Listings(S) ==
    {q \in [1..Cardinality(S) -> S] : \A i, j \in DOMAIN q : i # j => q[i] # q[j]}

\* sorted(file_list)
Sorted(file_list) == SortSeq(file_list, Before)

\* the file system calls a step makes
Stat(what) == [op |-> what, file |-> File(0, ""), pattern |-> ""]

GlobCall(pattern) == [op |-> "glob", file |-> File(0, ""), pattern |-> pattern]

Open(f) == [op |-> "open", file |-> f, pattern |-> ""]

GlobCalls(patterns, n) == [i \in 1..n |-> GlobCall(patterns[i])]

\* lines 153-156, without the check of lines 157-158
ValidatedNoTpCheck(args) ==
    IF args.model_path.kind = "None" \/ args.initial_device = "meta"
    THEN "{}"
    ELSE IF args.checkpoint_sharding = "fsdp"
            /\ args.distributed_strategy \notin {"fsdp", "hsdp"}
    THEN "ValueError: FSDP checkpoints can only be loaded into an FSDP model"
    ELSE ""

\* lines 153-158 with the device left out of the test of line 153
ValidatedPathOnly(args) ==
    IF args.model_path.kind = "None"
    THEN "{}"
    ELSE IF args.checkpoint_sharding = "fsdp"
            /\ args.distributed_strategy \notin {"fsdp", "hsdp"}
    THEN "ValueError: FSDP checkpoints can only be loaded into an FSDP model"
    ELSE IF args.checkpoint_sharding = "tp" /\ args.distributed_strategy # "tp"
    THEN "ValueError: TP checkpoints can only be loaded into a TP model"
    ELSE ""

\* lines 153-158: "" when the call goes on, else how it ends
Validated(args) ==
    IF args.model_path.kind = "None" \/ args.initial_device = "meta"
    THEN "{}"
    ELSE IF args.checkpoint_sharding = "fsdp"
            /\ args.distributed_strategy \notin {"fsdp", "hsdp"}
    THEN "ValueError: FSDP checkpoints can only be loaded into an FSDP model"
    ELSE IF args.checkpoint_sharding = "tp" /\ args.distributed_strategy # "tp"
    THEN "ValueError: TP checkpoints can only be loaded into a TP model"
    ELSE ""

\* lines 160-188: the candidate files and the file system calls made to find
\* them; file_list is the listing the matching glob call returned
Discovered(args, file_list) ==
    LET path     == args.model_path
        patterns == GlobPatternList(path.glob, args.source)
        hit      == FirstMatch(path.files, patterns)
    IN IF path.kind = "dir"
       THEN [checkpoints |-> IF hit = 0 THEN <<>> ELSE Sorted(file_list),
             io |-> <<Stat("is_dir")>>
                      \o GlobCalls(patterns, IF hit = 0 THEN Len(patterns) ELSE hit)
                      \o <<Stat("is_file")>>]
       ELSE IF path.kind = "file"
       THEN [checkpoints |-> <<CHOOSE f \in path.files : TRUE>>,
             io |-> <<Stat("is_dir"), Stat("is_file")>>]
       ELSE [checkpoints |-> <<>>, io |-> <<Stat("is_dir"), Stat("is_file")>>]

\* the listings the matching glob call of Discovered may return
FileLists(args) ==
    LET path     == args.model_path
        patterns == GlobPatternList(path.glob, args.source)
        hit      == FirstMatch(path.files, patterns)
    IN IF path.kind = "dir" /\ hit # 0 THEN Listings(Glob(path.files, patterns[hit]))
       ELSE {<<>>}

\* lines 193-198 keeping the first file on every rank
SelectedFirst(args, checkpoints, rank) ==
    IF args.checkpoint_sharding # None /\ args.checkpoint_sharding # "layer"
    THEN IF args.world_size # Len(checkpoints)
         THEN [error |-> "AssertionError: world size", checkpoints |-> <<>>]
         ELSE [error |-> "", checkpoints |-> <<checkpoints[1]>>]
    ELSE [error |-> "", checkpoints |-> checkpoints]

\* lines 193-198: a sharded checkpoint holds one file per rank
Selected(args, checkpoints, rank) ==
    IF args.checkpoint_sharding # None /\ args.checkpoint_sharding # "layer"
    THEN IF args.world_size # Len(checkpoints)
         THEN [error |-> "AssertionError: world size", checkpoints |-> <<>>]
         ELSE [error |-> "", checkpoints |-> <<checkpoints[rank + 1]>>]
    ELSE [error |-> "", checkpoints |-> checkpoints]

\* lines 200-206: an unsharded checkpoint under fsdp/hsdp is loaded on rank 0 only
RankZeroOnly(args, checkpoints, rank) ==
    IF args.checkpoint_sharding = None /\ args.distributed_strategy \in {"hsdp", "fsdp"}
    THEN IF rank = 0 THEN [returns |-> FALSE, checkpoints |-> <<checkpoints[1]>>]
         ELSE [returns |-> TRUE, checkpoints |-> <<>>]
    ELSE [returns |-> FALSE, checkpoints |-> checkpoints]

\* lines 208-222: one store per file, lazy when the first file is a safetensors
\* file (_load_safetensors_state_dict opens the file for its keys), else torch.load
Loaded(checkpoints) ==
    LET lazy == checkpoints[1].suffix = ".safetensors"
    IN [maps |-> [i \in DOMAIN checkpoints |-> [file |-> checkpoints[i], lazy |-> lazy]],
        io |-> [i \in DOMAIN checkpoints |-> Open(checkpoints[i])]]

LsdOutcome(result, candidates, maps, io) ==
    [result |-> result, candidates |-> candidates, maps |-> maps, io |-> io]

NotCalled == LsdOutcome("not called", <<>>, <<>>, <<>>)

\* load_state_dict as rank calls it, file_list being what the matching glob call lists
LoadStateDict(args, rank, file_list) ==
    LET early == Validated(args)
        found == Discovered(args, file_list)
        sel   == Selected(args, found.checkpoints, rank)
        zero  == RankZeroOnly(args, sel.checkpoints, rank)
        load  == Loaded(zero.checkpoints)
    IN IF early # "" THEN LsdOutcome(early, <<>>, <<>>, <<>>)
       ELSE IF found.checkpoints = <<>>
       THEN LsdOutcome("AssertionError: not found", <<>>, <<>>, found.io)
       ELSE IF sel.error # ""
       THEN LsdOutcome(sel.error, found.checkpoints, <<>>, found.io)
       ELSE IF zero.returns
       THEN LsdOutcome("{}", found.checkpoints, <<>>, found.io)
       ELSE LsdOutcome("ChainMap", found.checkpoints, load.maps, found.io \o load.io)

Ranks == 0..(lsd_args.world_size - 1)

load_state_dict(rank) ==
    /\ lsd_out[rank] = NotCalled
    /\ \E file_list \in FileLists(lsd_args) :
           lsd_out' = [lsd_out EXCEPT ![rank] = LoadStateDict(lsd_args, rank, file_list)]
    /\ UNCHANGED <<lsd_args, notLsd>>

(***************************************************************************)
(* The TP copy functions: _copy_colwise, _copy_rowwise, _copy_embedding,   *)
(* _copy_if_present                                                        *)
(*                                                                         *)
(* A tensor is its shape and its data: a sequence of numbers (1-D) or a    *)
(* sequence of rows (2-D).                                                 *)
(***************************************************************************)
Min(a, b) == IF a < b THEN a ELSE b

Tensor1(data) == [shape |-> <<Len(data)>>, data |-> data]

Tensor2(n, k, data) == [shape |-> <<n, k>>, data |-> data]

\* t[lo:hi] of a Python sequence: the bounds are clipped to the length
PySlice(q, lo, hi) == SubSeq(q, lo + 1, Min(hi, Len(q)))

\* tensor_value[lo:hi] and tensor_value[lo:hi, :]
SliceFirst(t, lo, hi) ==
    LET data == PySlice(t.data, lo, hi)
    IN [shape |-> [t.shape EXCEPT ![1] = Len(data)], data |-> data]

\* tensor_value[:, lo:hi]
SliceLast(t, lo, hi) ==
    LET cols == Len(PySlice([j \in 1..t.shape[2] |-> j], lo, hi))
    IN [shape |-> <<t.shape[1], cols>>,
        data |-> [i \in 1..t.shape[1] |-> PySlice(t.data[i], lo, hi)]]

\* Tensor.copy_: the source is broadcast to the destination's shape, and
\* RuntimeError is raised when it cannot be
Broadcastable(src, dst) ==
    /\ Len(src) = Len(dst)
    /\ \A i \in DOMAIN src : src[i] = dst[i] \/ src[i] = 1

At(n, i) == IF n = 1 THEN 1 ELSE i

Written(shape, data) == [status |-> "written", shape |-> shape, data |-> data]

RuntimeError(shape) == [status |-> "RuntimeError", shape |-> shape, data |-> <<>>]

Unwritten(shape) == [status |-> "unwritten", shape |-> shape, data |-> <<>>]

Copy(param_shape, t) ==
    IF ~Broadcastable(t.shape, param_shape) THEN RuntimeError(param_shape)
    ELSE IF Len(param_shape) = 1
    THEN Written(param_shape, [i \in 1..param_shape[1] |-> t.data[At(t.shape[1], i)]])
    ELSE Written(param_shape,
                 [i \in 1..param_shape[1] |->
                     [j \in 1..param_shape[2] |->
                         t.data[At(t.shape[1], i)][At(t.shape[2], j)]]])

\* Tensor.zero_
Zero(param_shape) ==
    IF Len(param_shape) = 1
    THEN Written(param_shape, [i \in 1..param_shape[1] |-> 0])
    ELSE Written(param_shape, [i \in 1..param_shape[1] |-> [j \in 1..param_shape[2] |-> 0]])

\* _copy_if_present
CopyIfPresent(param_shape, tensor_value) == Copy(param_shape, tensor_value)

\* the bounds with the rank left unscaled
PartitionUnscaled(rank, output_size_per_partition) ==
    [lo |-> rank, hi |-> rank + output_size_per_partition]

\* "(rank * output_size_per_partition) : ((rank + 1) * output_size_per_partition)"
Partition(rank, output_size_per_partition) ==
    [lo |-> rank * output_size_per_partition,
     hi |-> (rank + 1) * output_size_per_partition]

\* _copy_colwise
CopyColwise(param_shape, tensor_value, is_bias, rank, world_size) ==
    LET part == Partition(rank, param_shape[1])
    IN Copy(param_shape, SliceFirst(tensor_value, part.lo, part.hi))

\* _copy_rowwise with the bias copied on every rank
CopyRowwiseEveryRank(param_shape, tensor_value, is_bias, rank, world_size) ==
    IF ~is_bias
    THEN LET part == Partition(rank, param_shape[2])
         IN Copy(param_shape, SliceLast(tensor_value, part.lo, part.hi))
    ELSE CopyIfPresent(param_shape, tensor_value)

\* _copy_rowwise
CopyRowwise(param_shape, tensor_value, is_bias, rank, world_size) ==
    IF ~is_bias
    THEN LET part == Partition(rank, param_shape[2])
         IN Copy(param_shape, SliceLast(tensor_value, part.lo, part.hi))
    ELSE IF rank = 0 THEN CopyIfPresent(param_shape, tensor_value)
    ELSE Zero(param_shape)

\* _copy_embedding
CopyEmbedding(param_shape, tensor_value, rank, world_size) ==
    LET part == Partition(rank, param_shape[2])
    IN Copy(param_shape, SliceLast(tensor_value, part.lo, part.hi))

\* the source tensors: every element its own number, or every element one
Fills == {"index", "ones"}

Source1(n, fill) == Tensor1([i \in 1..n |-> IF fill = "index" THEN i ELSE 1])

Source2(n, k, fill) ==
    Tensor2(n, k, [i \in 1..n |-> [j \in 1..k |->
                      IF fill = "index" THEN (i - 1) * k + j ELSE 1]])

\* a weight is 2-D and a bias 1-D; the sharded dimension has up to MaxDim
\* elements and the other one up to OtherDim
TpArgs ==
    {[kind |-> kind, is_bias |-> TRUE, tensor_value |-> Source1(n, fill),
      param_shape |-> <<size>>, world_size |-> w] :
        kind \in {"colwise", "rowwise"}, n \in 1..MaxDim, fill \in Fills,
        size \in 1..MaxDim, w \in 1..MaxWorld}
    \cup
    {[kind |-> "colwise", is_bias |-> FALSE, tensor_value |-> Source2(n, k, fill),
      param_shape |-> <<size, k2>>, world_size |-> w] :
        n \in 1..MaxDim, k \in 1..OtherDim, fill \in Fills,
        size \in 1..MaxDim, k2 \in 1..OtherDim, w \in 1..MaxWorld}
    \cup
    {[kind |-> kind, is_bias |-> FALSE, tensor_value |-> Source2(k, n, fill),
      param_shape |-> <<k2, size>>, world_size |-> w] :
        kind \in {"rowwise", "embedding"}, n \in 1..MaxDim, k \in 1..OtherDim,
        fill \in Fills, size \in 1..MaxDim, k2 \in 1..OtherDim, w \in 1..MaxWorld}

\* the dispatch of lines 451-473 on the kind the TP module declares
TpCopy(args, rank) ==
    CASE args.kind = "colwise" ->
             CopyColwise(args.param_shape, args.tensor_value, args.is_bias, rank,
                         args.world_size)
      [] args.kind = "rowwise" ->
             CopyRowwise(args.param_shape, args.tensor_value, args.is_bias, rank,
                         args.world_size)
      [] args.kind = "embedding" ->
             CopyEmbedding(args.param_shape, args.tensor_value, rank, args.world_size)

TpRanks == 0..(tp_args.world_size - 1)

\* one rank loads its shard of the tensor into its own parameter
copy_shard(rank) ==
    /\ tp_param[rank].status = "unwritten"
    /\ tp_param' = [tp_param EXCEPT ![rank] = TpCopy(tp_args, rank)]
    /\ UNCHANGED <<tp_args, notTp>>

(***************************************************************************)
(* The destination model: a module tree                                    *)
(*                                                                         *)
(*   root ─ head                  Linear: weight, bias                     *)
(*        └ layers                ModuleList (Iterable) of one layer       *)
(*            └ 0                 TPModule: colwise "query", rowwise       *)
(*                ├ query         "dense", embedding "emb"; "norm" is in   *)
(*                ├ dense         none of its lists                        *)
(*                ├ emb                                                    *)
(*                └ norm                                                   *)
(***************************************************************************)
Children(module) ==
    CASE module = "root"   -> [head |-> "head", layers |-> "layers"]
      [] module = "layer0" -> [query |-> "query", dense |-> "dense", emb |-> "emb",
                               norm |-> "norm"]
      [] OTHER             -> <<>>

Parameters(module) ==
    CASE module \in {"head", "query", "dense"} -> {"weight", "bias"}
      [] module \in {"emb", "norm"}            -> {"weight"}
      [] OTHER                                 -> {}

\* the items of a ModuleList
Items(module) == IF module = "layers" THEN <<"layer0">> ELSE <<>>

IsIterable(module) == module = "layers"

IsTPModule(module) == module = "layer0"

ColwiseParamNames(tp_module) == {"query"}

RowwiseParamNames(tp_module) == {"dense"}

EmbeddingParamNames(tp_module) == {"emb"}

\* getattr(module, name): a child module, a parameter, or AttributeError
AttributeError == [is |-> "AttributeError", module |-> None, name |-> None]

GetAttr(module, name) ==
    IF name \in DOMAIN Children(module)
    THEN [is |-> "module", module |-> Children(module)[name], name |-> None]
    ELSE IF name \in Parameters(module)
    THEN [is |-> "parameter", module |-> module, name |-> name]
    ELSE AttributeError

\* int(segment): the number, or -1 for ValueError
IntOf(segment) ==
    CASE segment = "0" -> 0
      [] segment = "1" -> 1
      [] OTHER         -> -1

(***************************************************************************)
(* _load_partial_state_dict                                                *)
(***************************************************************************)
Walked(target_module, tp_module, unused, raised) ==
    [target_module |-> target_module, tp_module |-> tp_module, unused |-> unused,
     raised |-> raised]

\* lines 424-439: the walk from key_step (0-based) on; unused counts the appends
\* to unused_params, raised is the exception that leaves the function
\* (no key of KeyOrder names a parameter before its last segment, so a getattr
\* of the walk yields a child module or raises AttributeError)
RECURSIVE Walk(_, _, _, _)
Walk(key_steps, target_module, tp_module, key_step) ==
    IF key_step >= Len(key_steps) - 1 THEN Walked(target_module, tp_module, 0, "")
    ELSE With(GetAttr(target_module, key_steps[key_step + 1]), LAMBDA got :
            IF got.is # "module"
            THEN \* AttributeError: the key is appended and the loop left
                 Walked(target_module, tp_module, 1, "")
            ELSE IF IsIterable(got.module)
            THEN LET index == IntOf(key_steps[key_step + 2])
                 IN IF index < 0
                    THEN Walked(got.module, tp_module, 0, "ValueError")
                    ELSE IF index >= Len(Items(got.module))
                    THEN Walked(got.module, tp_module, 0, "IndexError")
                    ELSE LET item == Items(got.module)[index + 1]
                         IN Walk(key_steps, item,
                                 IF IsTPModule(item) THEN item ELSE tp_module,
                                 key_step + 2)
            ELSE Walk(key_steps, got.module,
                      IF IsTPModule(got.module) THEN got.module ELSE tp_module,
                      key_step + 1))

WriteOf(key, param, by, is_bias, tensor_value) ==
    [key |-> key, module |-> param.module, name |-> param.name, by |-> by,
     is_bias |-> is_bias, tensor_value |-> tensor_value]

\* lines 441-475 for one key, after the walk: the copies made and the appends to
\* unused_params.  A copy function handed a module raises AttributeError, which
\* the except clause takes for a missing parameter.
Placed(key, tensor_value, walk, needs_tp_sharding) ==
    LET key_steps == key
        param     == GetAttr(walk.target_module, key_steps[Len(key_steps)])
        is_bias   == key_steps[Len(key_steps)] = "bias"
        name      == key_steps[Len(key_steps) - 1]
        tp_copies ==
            (IF name \in ColwiseParamNames(walk.tp_module) THEN <<"_copy_colwise">> ELSE <<>>)
            \o (IF name \in RowwiseParamNames(walk.tp_module) THEN <<"_copy_rowwise">>
                ELSE <<>>)
            \o (IF name \in EmbeddingParamNames(walk.tp_module) THEN <<"_copy_embedding">>
                ELSE <<>>)
        copies    == IF ~needs_tp_sharding \/ walk.tp_module = None
                     THEN <<"_copy_if_present">> ELSE tp_copies
    IN IF param = AttributeError THEN [writes |-> <<>>, unused |-> 1]
       ELSE IF param.is = "module"
       THEN [writes |-> <<>>, unused |-> IF copies = <<>> THEN 0 ELSE 1]
       ELSE [writes |-> [i \in DOMAIN copies |->
                            WriteOf(key, param, copies[i], is_bias, tensor_value)],
             unused |-> 0]

Repeat(x, n) == [i \in 1..n |-> x]

\* the whole function: the items of state_dict in order; an exception of the walk
\* leaves it with the copies made so far
RECURSIVE LoadPartialStateDict(_, _, _, _)
LoadPartialStateDict(items, state_dict_, needs_tp_sharding, done) ==
    IF items = <<>> THEN done
    ELSE With(Head(items), LAMBDA key :
         With(Walk(key, "root", None, 0), LAMBDA walk :
         With(Placed(key, state_dict_[key], walk, needs_tp_sharding), LAMBDA placed :
         With(done, LAMBDA so_far :
            IF walk.raised # ""
            THEN [so_far EXCEPT !.raised = walk.raised]
            ELSE LoadPartialStateDict(
                     Tail(items), state_dict_, needs_tp_sharding,
                     [so_far EXCEPT
                         !.writes = @ \o placed.writes,
                         !.unused_params = @ \o Repeat(key, walk.unused + placed.unused)])))))

(***************************************************************************)
(* load_state_dict_into_model                                              *)
(*                                                                         *)
(* A mapping is a function from its keys to thunks or tensors; its keys    *)
(* come in the order of KeyOrder.                                          *)
(***************************************************************************)
KeyOrder ==
    <<KHead, KRawQ, KHeadBogus, KBogus, KPartial, KQuery, KDenseBias, KEmb, KNorm,
      KIndex, KNotInt, KRawK, KRawHead>>

InOrder(S) == SelectSeq(KeyOrder, LAMBDA k : k \in S)

Without(q, S) == SelectSeq(q, LAMBDA k : k \notin S)

\* ChainMap.__iter__: "for mapping in reversed(self.maps): d |= dict.fromkeys(mapping)"
RECURSIVE ChainKeys(_)
ChainKeys(maps) ==
    IF maps = <<>> THEN <<>>
    ELSE LET later == ChainKeys(Tail(maps))
         IN later \o Without(InOrder(DOMAIN Head(maps)), Range(later))

\* list(state_dict.keys())
Keys(maps, is_chain) == IF is_chain THEN ChainKeys(maps) ELSE InOrder(DOMAIN maps[1])

\* a merge in which the last map that holds the key answers, as in {**a, **b}
ViewGetLast(maps, key) ==
    LET holders == {m \in DOMAIN maps : key \in DOMAIN maps[m]}
    IN IF holders = {} THEN [maps |-> maps, value |-> KeyError, reads |-> <<>>]
       ELSE LET m   == CHOOSE m \in holders : \A n \in holders : m >= n
                got == GetItem(maps[m], key, "gen1")
            IN [maps |-> [maps EXCEPT ![m] = got.data], value |-> got.value,
                reads |-> [i \in DOMAIN got.reads |-> <<m, key>>]]

\* state_dict[key]: the first map that holds the key answers, resolving its thunk
ViewGet(maps, key) ==
    LET holders == {m \in DOMAIN maps : key \in DOMAIN maps[m]}
    IN IF holders = {} THEN [maps |-> maps, value |-> KeyError, reads |-> <<>>]
       ELSE LET m   == CHOOSE m \in holders : \A n \in holders : m <= n
                got == GetItem(maps[m], key, "gen1")
            IN [maps |-> [maps EXCEPT ![m] = got.data], value |-> got.value,
                reads |-> [i \in DOMAIN got.reads |-> <<m, key>>]]

\* lines 301-305 left out: nothing is gathered
GatheredNothing(missing_weights, gathered) == gathered

\* lines 301-305 without "used_keys.add(weight)"
RECURSIVE GatheredUnmarked(_, _)
GatheredUnmarked(missing_weights, gathered) ==
    With(gathered, LAMBDA g :
        IF missing_weights = <<>> \/ g.raised # "" THEN g
        ELSE With(Head(missing_weights), LAMBDA weight :
             With(ViewGet(g.maps, weight), LAMBDA got :
                IF got.value = KeyError
                THEN [g EXCEPT !.raised = "KeyError"]
                ELSE GatheredUnmarked(Tail(missing_weights),
                              [g EXCEPT !.maps = got.maps,
                                        !.reads = @ \o got.reads,
                                        !.partial_sd =
                                            [k \in DOMAIN @ \cup {weight} |->
                                                IF k = weight THEN got.value ELSE @[k]]]))))

\* lines 301-305: the missing weights gathered into partial_sd, up to a KeyError
RECURSIVE Gathered(_, _)
Gathered(missing_weights, gathered) ==
    With(gathered, LAMBDA g :
        IF missing_weights = <<>> \/ g.raised # "" THEN g
        ELSE With(Head(missing_weights), LAMBDA weight :
             With(ViewGet(g.maps, weight), LAMBDA got :
                IF got.value = KeyError
                THEN [g EXCEPT !.raised = "KeyError", !.used_keys = @ \cup {weight}]
                ELSE Gathered(Tail(missing_weights),
                              [g EXCEPT !.maps = got.maps,
                                        !.used_keys = @ \cup {weight},
                                        !.reads = @ \o got.reads,
                                        !.partial_sd =
                                            [k \in DOMAIN @ \cup {weight} |->
                                                IF k = weight THEN got.value ELSE @[k]]]))))

\* lines 308-313 left out: the consumed keys stay in the view
EvictedNothing(p_keys, evicted, is_chain) == evicted

\* lines 308-313: every key of partial_sd popped from every map of a ChainMap
\* ("child_sd.pop(p_key, None)"), or from the mapping itself ("state_dict.pop(p_key)")
RECURSIVE Evicted(_, _, _)
Evicted(p_keys, evicted, is_chain) ==
    IF p_keys = <<>> THEN evicted
    ELSE With(evicted, LAMBDA e :
         With(Head(p_keys), LAMBDA p_key :
         With(<<Pop(e.maps[1], p_key, IF is_chain THEN NoneValue ELSE NoDefault, "gen1")>>
              \o (IF Len(e.maps) = 1 THEN <<>>
                  ELSE <<Pop(e.maps[2], p_key, NoneValue, "gen1")>>), LAMBDA popped :
            Evicted(Tail(p_keys),
                    [maps  |-> [m \in DOMAIN popped |-> popped[m].data],
                     reads |-> e.reads
                               \o (IF popped[1].reads # <<>> THEN <<<<1, p_key>>>> ELSE <<>>)
                               \o (IF Len(popped) = 2 /\ popped[2].reads # <<>>
                                   THEN <<<<2, p_key>>>> ELSE <<>>)],
                    is_chain))))

\* line 285
NeedsTpSharding(args) ==
    args.checkpoint_sharding # "tp" /\ args.distributed_strategy = "tp"

NoLoad == [writes |-> <<>>, unused_params |-> <<>>, raised |-> ""]

\* lines 292-300: the key's tensor read from the view and handed to the adapter,
\* and, when the adapter signals missing weights, those gathered
FirstTry(adapter, maps, used, key) ==
    With(ViewGet(maps, key), LAMBDA first :
    With(ApplyAdapter(adapter, [k \in {key} |-> first.value]), LAMBDA try :
    With([maps |-> first.maps, used_keys |-> used \cup {key}, reads |-> first.reads,
          partial_sd |-> [k \in {key} |-> first.value], raised |-> ""], LAMBDA start :
        [try |-> try,
         gather |-> IF try.raised THEN Gathered(try.missing_weights, start) ELSE start])))

\* one iteration of the loop of lines 291-315 for a key that is not in used_keys
Iteration(args, adapter, maps, used, key) ==
    With(FirstTry(adapter, maps, used, key), LAMBDA t :
    With(IF t.try.raised /\ t.gather.raised = ""
         THEN ApplyAdapter(adapter, t.gather.partial_sd) ELSE t.try, LAMBDA retry :
    With(IF t.gather.raised # "" THEN t.gather.raised
         ELSE IF retry.raised THEN "FusableWeightsMissingError" ELSE "", LAMBDA raised1 :
    With(IF raised1 # "" THEN NoLoad
         ELSE LoadPartialStateDict(InOrder(DOMAIN retry.sd), retry.sd,
                                   NeedsTpSharding(args), NoLoad), LAMBDA load :
    With(IF raised1 # "" THEN raised1 ELSE load.raised, LAMBDA raised2 :
    With(IF raised2 # "" THEN [maps |-> t.gather.maps, reads |-> <<>>]
         ELSE Evicted(InOrder(DOMAIN t.gather.partial_sd),
                      [maps |-> t.gather.maps, reads |-> <<>>], args.is_chain),
         LAMBDA evict :
        [maps |-> evict.maps, used_keys |-> t.gather.used_keys, raised |-> raised2,
         writes |-> load.writes, unused_params |-> load.unused_params,
         handled |-> IF raised1 # "" THEN <<>> ELSE InOrder(DOMAIN retry.sd),
         reads |-> t.gather.reads \o evict.reads,
         did |-> [key |-> key, skipped |-> FALSE,
                  adapter_calls |-> IF t.try.raised /\ t.gather.raised = "" THEN 2 ELSE 1,
                  gathered |-> IF t.try.raised THEN t.try.missing_weights ELSE <<>>,
                  partial_keys |-> DOMAIN t.gather.partial_sd,
                  partial_sd |-> t.gather.partial_sd,
                  handled |-> IF raised1 # "" THEN <<>>
                              ELSE InOrder(DOMAIN retry.sd)]]))))))

LdArgsOf(view, source, strategy) ==
    [architecture |-> "llama", source |-> source, distributed_strategy |-> strategy,
     checkpoint_sharding |-> None, is_chain |-> view.is_chain, state_dict |-> view.maps,
     rank |-> 0, world_size |-> 1]

\* lines 284-290: the call with its arguments, up to the head of the loop over
\* "sd_keys = list(state_dict.keys())"
load_state_dict_into_model(view, source, strategy) ==
    /\ pc = "idle"
    /\ ld_args' = LdArgsOf(view, source, strategy)
    /\ state_dict' = view.maps
    /\ sd_keys' = Keys(view.maps, view.is_chain)
    /\ used_keys' = {}
    /\ pc' = "loop"
    /\ UNCHANGED <<ld_pos, ld_error, ld_result, writes, diagnostics, handled, iterations,
                   ld_reads, notLd>>

\* the loop has a key to go on with
Looping == pc = "loop" /\ ld_pos <= Len(sd_keys)

\* the loop body: "if key in used_keys: continue", else the iteration
loop_iteration ==
    /\ Looping
    /\ LET key == sd_keys[ld_pos]
       IN IF key \in used_keys
          THEN /\ ld_pos' = ld_pos + 1
               /\ iterations' = Append(iterations,
                                       [key |-> key, skipped |-> TRUE, adapter_calls |-> 0,
                                        gathered |-> <<>>, partial_keys |-> {},
                                        partial_sd |-> EmptySd,
                                        handled |-> <<>>])
               /\ UNCHANGED <<state_dict, used_keys, pc, ld_error, writes, diagnostics,
                              handled, ld_reads>>
          ELSE \E it \in {Iteration(ld_args, GetAdapter(adapters, ld_args.architecture,
                                                         ld_args.source),
                                     state_dict, used_keys, key)} :
                  /\ state_dict' = it.maps
                  /\ used_keys' = it.used_keys
                  /\ writes' = writes \o it.writes
                  /\ diagnostics' = diagnostics \o it.unused_params
                  /\ handled' = handled \o it.handled
                  /\ ld_reads' = ld_reads \o it.reads
                  /\ iterations' = Append(iterations, it.did)
                  /\ IF it.raised # ""
                     THEN pc' = "Aborted" /\ ld_error' = it.raised /\ ld_pos' = ld_pos
                     ELSE pc' = pc /\ ld_error' = ld_error /\ ld_pos' = ld_pos + 1
    /\ UNCHANGED <<ld_args, sd_keys, ld_result, notLd>>

\* the loop is over and the function returns (None: it has no return statement)
return ==
    /\ pc = "loop"
    /\ ld_pos > Len(sd_keys)
    /\ pc' = "Done"
    /\ ld_result' = None
    /\ UNCHANGED <<ld_args, state_dict, sd_keys, ld_pos, used_keys, ld_error, writes,
                   diagnostics, handled, iterations, ld_reads, notLd>>

\* the views: up to MaxEntries entries in the two maps of a ChainMap (one store
\* per checkpoint file, all lazy or all loaded), or in one mapping
MapOf(keys, file, lazy) ==
    [k \in keys |-> IF lazy THEN Thunk(k, file) ELSE Tensor(file, k)]

Views ==
    LET upTo[n \in 0..MaxEntries] ==
            IF n = 0 THEN {{}}
            ELSE upTo[n - 1] \cup {s \cup {k} : s \in upTo[n - 1], k \in Range(KeyOrder)}
    IN UNION {{[is_chain |-> TRUE,
                maps |-> <<MapOf(s1, "f1", lazy), MapOf(s2, "f2", lazy)>>] :
                  s2 \in upTo[MaxEntries - Cardinality(s1)], lazy \in BOOLEAN} :
              s1 \in upTo[MaxEntries]}
       \cup {[is_chain |-> FALSE, maps |-> <<MapOf(s1, "f1", lazy)>>] :
                s1 \in upTo[MaxEntries], lazy \in BOOLEAN}

\* the registry the load runs under
LoadRegistry == [a \in {"llama"} |-> <<<<"hf", "fuse">>, <<"meta", "greedy">>>>]

(***************************************************************************)
(* Initial states and specifications                                       *)
(***************************************************************************)
Pairs == Architectures \X Sources

RegInit ==
    /\ adapters = [a \in {} |-> <<>>]
    /\ reg_call = RegIdle
    /\ first_bound = [p \in Pairs |-> None]

LazyInit ==
    /\ store = [k \in {} |-> NoDefault]
    /\ was_set = {}
    /\ io_reads = [k \in LazyKeys |-> 0]
    /\ get_calls = [k \in LazyKeys |-> 0]
    /\ first_value = [k \in LazyKeys |-> NoDefault]
    /\ file_gen = "gen1"
    /\ lazy_call = LazyIdle

LsdIdle ==
    /\ lsd_args = [model_path |-> PathNone, source |-> None, distributed_strategy |-> None,
                   checkpoint_sharding |-> None, initial_device |-> "cpu", world_size |-> 1]
    /\ lsd_out = [r \in {0} |-> NotCalled]

LsdInit ==
    /\ lsd_args \in LsdArgs
    /\ lsd_out = [r \in 0..(lsd_args.world_size - 1) |-> NotCalled]

TpIdle ==
    /\ tp_args = [kind |-> "colwise", is_bias |-> TRUE, tensor_value |-> Source1(1, "ones"),
                  param_shape |-> <<1>>, world_size |-> 1]
    /\ tp_param = [r \in {0} |-> Unwritten(<<1>>)]

TpInit ==
    /\ tp_args \in TpArgs
    /\ tp_param = [r \in 0..(tp_args.world_size - 1) |-> Unwritten(tp_args.param_shape)]

\* no load_state_dict_into_model call has been made
LdIdle ==
    /\ ld_args = LdArgsOf([is_chain |-> FALSE, maps |-> <<EmptySd>>], None, None)
    /\ state_dict = <<EmptySd>>
    /\ sd_keys = <<>>
    /\ ld_pos = 1
    /\ used_keys = {}
    /\ pc = "idle"
    /\ ld_error = ""
    /\ ld_result = "pending"
    /\ writes = <<>>
    /\ diagnostics = <<>>
    /\ handled = <<>>
    /\ iterations = <<>>
    /\ ld_reads = <<>>

Init == RegInit /\ LazyInit /\ LsdIdle /\ TpIdle /\ LdIdle

RegNext ==
    \/ \E a \in Architectures, s \in Sources, ad \in AdapterNames : register_adapter(a, s, ad)
    \/ \E a \in Architectures : list_sources(a)
    \/ \E a \in Architectures, s \in Sources \cup {None}, sd \in AdaptInputs :
           get_adapted(a, s, sd)

LazyNext ==
    \/ \E k \in LazyKeys : set_lazy_tensor(k)
    \/ \E k \in LazyKeys : getitem(k)
    \/ \E k \in LazyKeys : pop(k)
    \/ \E k \in LazyKeys : contains(k)
    \/ FileRewritten

LsdNext == \E rank \in Ranks : load_state_dict(rank)

\* the ranks of one job, each calling load_state_dict with the job's arguments
LsdSpecInit == RegInit /\ LazyInit /\ LsdInit /\ TpIdle /\ LdIdle

LsdSpec == LsdSpecInit /\ [][LsdNext]_vars

TpNext == \E rank \in TpRanks : copy_shard(rank)

TpSpecInit == RegInit /\ LazyInit /\ LsdIdle /\ TpInit /\ LdIdle

\* the ranks of one TP job, each copying its shard of one tensor
TpSpec == TpSpecInit /\ [][TpNext]_vars

LoadNext ==
    \/ /\ pc = "idle"
       /\ \E view \in Views, source \in {None, "hf", "meta"}, strategy \in {None, "tp"} :
              load_state_dict_into_model(view, source, strategy)
    \/ loop_iteration
    \/ return

LoadSpecInit ==
    /\ adapters = LoadRegistry
    /\ reg_call = RegIdle
    /\ first_bound = [p \in Pairs |-> None]
    /\ LazyInit /\ LsdIdle /\ TpIdle /\ LdIdle

\* one load_state_dict_into_model call
LoadSpec == LoadSpecInit /\ [][LoadNext]_vars

\* a call that was made runs on until it returns or an exception leaves it
LoadFairSpec == LoadSpec /\ WF_vars(loop_iteration) /\ WF_vars(return)

\* the adapter registry and its callers
RegistrySpec == Init /\ [][RegNext]_vars

\* one LazySafetensorsDict and its callers
LazySpec == Init /\ [][LazyNext]_vars

(***************************************************************************)
(* Claims about the adapter registry (RegistrySpec)                        *)
(***************************************************************************)
FirstBindingKept ==
    \A p \in Pairs :
        first_bound[p] # None =>
            /\ IsBound(adapters, p[1], p[2])
            /\ Lookup(adapters[p[1]], p[2]) = first_bound[p]

DuplicateRejected ==
    (reg_call'.op = "register_adapter"
        /\ IsBound(adapters, reg_call'.architecture, reg_call'.source))
    => (reg_call'.outcome = "KeyError" /\ adapters' = adapters)

\* C7: register_adapter for a pair that is already bound raises the
\* duplicate-registration error (KeyError) and leaves the whole registry as it
\* was, so after any sequence of register calls every pair is still bound to the
\* adapter of its first registration.
C7_DuplicateRegistration == []FirstBindingKept /\ [][DuplicateRejected]_vars

\* a duplicate registration naming another adapter was rejected
C7_Witness ==
    /\ reg_call.op = "register_adapter"
    /\ reg_call.outcome = "KeyError"
    /\ Lookup(adapters[reg_call.architecture], reg_call.source) # reg_call.adapter
    /\ Cardinality(DOMAIN adapters) = 2

\* C8: get_adapted returns the state dict it was given, unchanged, whenever the
\* source is unset or the (architecture, source) pair is not registered, in every
\* registry state; when the pair is registered and the state dict is not empty it
\* returns what the registered adapter returns (or raises) for it.
C8_GetAdapted ==
    reg_call.op = "get_adapted" =>
        LET a  == reg_call.architecture
            s  == reg_call.source
            sd == reg_call.state_dict
        IN /\ (s = None \/ ~IsBound(adapters, a, s)) => reg_call.outcome = Returned(sd)
           /\ (s # None /\ IsBound(adapters, a, s) /\ DOMAIN sd # {}) =>
                  reg_call.outcome = ApplyAdapter(Lookup(adapters[a], s), sd)

\* the identity fallback was taken for an unregistered source of an architecture
\* whose registered adapter would have changed the state dict
C8_Witness ==
    /\ reg_call.op = "get_adapted"
    /\ reg_call.source # None
    /\ reg_call.architecture \in DOMAIN adapters
    /\ ~IsBound(adapters, reg_call.architecture, reg_call.source)
    /\ reg_call.outcome = Returned(reg_call.state_dict)
    /\ ApplyAdapter(adapters[reg_call.architecture][1][2], reg_call.state_dict)
           # Returned(reg_call.state_dict)

(***************************************************************************)
(* Claims about LazySafetensorsDict (LazySpec)                             *)
(***************************************************************************)
\* C6: for a key set by set_lazy_tensor, the file is read exactly once, by the
\* first read of the key (a __getitem__ call, which pop makes too): the thunk is
\* replaced in place by the tensor read, and every later read returns that same
\* tensor without reading the file, even when the file has changed since.
C6_ReadOnce ==
    \A k \in LazyKeys :
        /\ io_reads[k] = (IF first_value[k] # NoDefault THEN 1 ELSE 0)
        /\ (k \in DOMAIN store /\ ~store[k].callable) => store[k] = first_value[k]
        /\ (lazy_call.op \in {"getitem", "pop"} /\ lazy_call.key = k
               /\ lazy_call.value # KeyError) => lazy_call.value = first_value[k]

\* a key was read again after the file was rewritten, and the read returned the
\* tensor of the first read
C6_Witness ==
    /\ lazy_call.op = "getitem"
    /\ lazy_call.key \in DOMAIN store
    /\ get_calls[lazy_call.key] >= 2
    /\ io_reads[lazy_call.key] = 1
    /\ file_gen = "gen2"
    /\ lazy_call.value.gen = "gen1"

(***************************************************************************)
(* Claims about load_state_dict (LsdSpec)                                  *)
(***************************************************************************)
Called == {r \in Ranks : lsd_out[r] # NotCalled}

Incompatible ==
    \/ lsd_args.checkpoint_sharding = "fsdp"
          /\ lsd_args.distributed_strategy \notin {"fsdp", "hsdp"}
    \/ lsd_args.checkpoint_sharding = "tp" /\ lsd_args.distributed_strategy # "tp"

IncompatibilityError(r) ==
    /\ lsd_out[r].result \in
           {"ValueError: FSDP checkpoints can only be loaded into an FSDP model",
            "ValueError: TP checkpoints can only be loaded into a TP model"}
    /\ lsd_out[r].io = <<>>

ShortCircuits == lsd_args.model_path.kind = "None" \/ lsd_args.initial_device = "meta"

\* C1 as stated: an incompatible (checkpoint_sharding, distributed_strategy) pair
\* fails with the incompatibility error before any file discovery or read,
\* whatever the path, the device, the rank and the world size.
C1_AsStated == \A r \in Called : Incompatible => IncompatibilityError(r)

\* C1, amended: an incompatible (checkpoint_sharding, distributed_strategy) pair
\* fails with the incompatibility error before any file discovery or read for
\* every rank and world size and every path and device, except that a call with
\* no path or with the meta device returns the empty dict instead.
C1_Incompatible ==
    \A r \in Called :
        Incompatible =>
            IF ShortCircuits THEN lsd_out[r].result = "{}" /\ lsd_out[r].io = <<>>
            ELSE IncompatibilityError(r)

\* the error was raised for directories that hold too few and enough files alike
C1_Witness ==
    /\ Incompatible
    /\ ~ShortCircuits
    /\ lsd_args.model_path.kind = "dir"
    /\ Cardinality(lsd_args.model_path.files) >= 2
    /\ lsd_args.world_size = 2
    /\ Called = Ranks
    /\ \A r \in Ranks : IncompatibilityError(r)

\* the glob patterns in the priority order C9 names
C9_Priority ==
    IF lsd_args.model_path.glob # "" THEN <<lsd_args.model_path.glob>>
    ELSE CASE lsd_args.source = "meta" -> <<"*.pth", "*.safetensors">>
           [] lsd_args.source = "hf"   -> <<"*.bin", "*.safetensors">>
           [] OTHER                    -> <<"*.safetensors", "*.pth", "*.bin">>

HasSuffix(suffix) == \E f \in lsd_args.model_path.files : f.suffix = suffix

Ascending(q) == \A i, j \in DOMAIN q : i < j => Before(q[i], q[j])

ReachedDiscovery == ~ShortCircuits /\ ~Incompatible

\* C9: for a directory path the candidate files are exactly the files matching
\* the first pattern, in priority order (the explicit glob fragment; else the
\* order of the source; else .safetensors, .pth, .bin), that matches at least one
\* file, in lexicographic order, and no file is a candidate when no pattern
\* matches; a directory with .safetensors and .bin files and no source hint
\* yields only its .safetensors files.
C9_Candidates ==
    \A r \in Called :
        (lsd_args.model_path.kind = "dir" /\ ReachedDiscovery) =>
            LET files == lsd_args.model_path.files
                tried == {i \in DOMAIN C9_Priority : Glob(files, C9_Priority[i]) # {}}
                cands == lsd_out[r].candidates
            IN /\ Ascending(cands)
               /\ tried = {} => (cands = <<>> /\ lsd_out[r].result = "AssertionError: not found")
               /\ \A i \in tried :
                      (\A j \in tried : i <= j) => Range(cands) = Glob(files, C9_Priority[i])
               /\ (lsd_args.source = None /\ lsd_args.model_path.glob = ""
                      /\ HasSuffix(".safetensors") /\ HasSuffix(".bin")) =>
                      Range(cands) = {f \in files : f.suffix = ".safetensors"}

\* a directory with several .safetensors and .bin files, no source hint and no
\* glob fragment gave its .safetensors files, in order
C9_Witness ==
    /\ lsd_args.model_path.kind = "dir"
    /\ lsd_args.model_path.glob = ""
    /\ lsd_args.source = None
    /\ \E r \in Called :
           /\ lsd_out[r].candidates = <<File(1, ".safetensors"), File(2, ".safetensors")>>
           /\ lsd_out[r].result = "ChainMap"
    /\ Cardinality(Glob(lsd_args.model_path.files, "*.bin")) >= 2

Opened(r) == SelectSeq(lsd_out[r].io, LAMBDA c : c.op = "open")

\* the calls that get as far as the sharding selection of lines 193-198
ReachedSelection(r) ==
    /\ r \in Called
    /\ ReachedDiscovery
    /\ lsd_out[r].result # "AssertionError: not found"

\* C10: for every checkpoint_sharding other than "layer" and None, a call that
\* has found its candidate files fails with the mismatch error unless their
\* number equals world_size, and otherwise rank r opens exactly the r-th
\* candidate in sorted order: distinct ranks open distinct files and every
\* candidate is opened by exactly one rank.
C10_OneFilePerRank ==
    lsd_args.checkpoint_sharding \notin {None, "layer"} =>
        /\ \A r \in Ranks :
               ReachedSelection(r) =>
                   IF Len(lsd_out[r].candidates) # lsd_args.world_size
                   THEN lsd_out[r].result = "AssertionError: world size" /\ Opened(r) = <<>>
                   ELSE /\ lsd_out[r].result = "ChainMap"
                        /\ Opened(r) = <<Open(lsd_out[r].candidates[r + 1])>>
        /\ \A r1, r2 \in Ranks :
               (ReachedSelection(r1) /\ ReachedSelection(r2) /\ r1 # r2
                   /\ lsd_out[r1].result = "ChainMap" /\ lsd_out[r2].result = "ChainMap")
               => Opened(r1) # Opened(r2)
        /\ (Called = Ranks /\ \A r \in Ranks : lsd_out[r].result = "ChainMap") =>
               \A f \in Range(lsd_out[0].candidates) :
                   Cardinality({r \in Ranks : Opened(r) = <<Open(f)>>}) = 1

\* three ranks loaded a tp-sharded checkpoint of three files
C10_Witness ==
    /\ lsd_args.checkpoint_sharding = "tp"
    /\ lsd_args.world_size >= 3
    /\ Called = Ranks
    /\ \A r \in Ranks : lsd_out[r].result = "ChainMap" /\ Len(lsd_out[r].candidates) >= 3

(***************************************************************************)
(* Claims about the TP copy functions (TpSpec)                             *)
(***************************************************************************)
TpDone == \A r \in TpRanks : tp_param[r].status # "unwritten"

\* the index of the sharded dimension: the first for colwise, the last otherwise
ShardedDim == IF tp_args.kind = "colwise" THEN 1 ELSE Len(tp_args.param_shape)

\* the parameters of ranks 0..n concatenated along the sharded dimension
ConcatFirst[n \in Nat] ==
    IF n = 0 THEN tp_param[0].data ELSE ConcatFirst[n - 1] \o tp_param[n].data

ConcatLast[n \in Nat] ==
    IF n = 0 THEN tp_param[0].data
    ELSE [i \in DOMAIN tp_param[0].data |-> ConcatLast[n - 1][i] \o tp_param[n].data[i]]

Concatenated ==
    IF ShardedDim = 1 THEN ConcatFirst[tp_args.world_size - 1]
    ELSE ConcatLast[tp_args.world_size - 1]

\* the kinds C2 is about: every kind but the rowwise bias
Partitioned == ~(tp_args.kind = "rowwise" /\ tp_args.is_bias)

\* the destination as a TP module built for world_size sizes it: the source's size
\* along the sharded dimension divided by world_size, rounded down
FloorShares ==
    \A d \in DOMAIN tp_args.param_shape :
        tp_args.param_shape[d] =
            (IF d = ShardedDim THEN tp_args.tensor_value.shape[d] \div tp_args.world_size
             ELSE tp_args.tensor_value.shape[d])

\* C2 as stated: for every world_size and every source tensor, the slices the
\* ranks write, concatenated in rank order along the sharded dimension, give back
\* the source tensor (read with the destination sized as its module sizes it).
C2_AsStated ==
    (Partitioned /\ FloorShares /\ TpDone) =>
        /\ \A r \in TpRanks : tp_param[r].status = "written"
        /\ Concatenated = tp_args.tensor_value.data

\* the destination is sized to an exact share of the source: world_size times its
\* size along the sharded dimension is the source's, and the other dimension agrees
ExactShares ==
    \A d \in DOMAIN tp_args.param_shape :
        tp_args.tensor_value.shape[d] =
            (IF d = ShardedDim THEN tp_args.world_size ELSE 1) * tp_args.param_shape[d]

\* elements lo+1..hi of the source along the sharded dimension
SourceSlice(lo, hi) ==
    IF ShardedDim = 1 THEN [i \in 1..(hi - lo) |-> tp_args.tensor_value.data[lo + i]]
    ELSE [i \in 1..tp_args.tensor_value.shape[1] |->
             [j \in 1..(hi - lo) |-> tp_args.tensor_value.data[i][lo + j]]]

\* C2, amended: for each sharding kind (colwise weight, colwise bias, rowwise
\* weight, embedding), for every world_size >= 1 and every source tensor whose
\* sharded dimension is exactly world_size times the destination parameter's (the
\* other dimension being the destination's), rank r writes the r-th block of the
\* destination's size, and the blocks of ranks 0..world_size-1 concatenated in
\* rank order along the sharded dimension give back the source tensor.
C2_Partition ==
    (Partitioned /\ ExactShares) =>
        LET size == tp_args.param_shape[ShardedDim]
        IN /\ \A r \in TpRanks :
                  tp_param[r].status # "unwritten" =>
                      /\ tp_param[r].status = "written"
                      /\ tp_param[r].data = SourceSlice(r * size, (r + 1) * size)
           /\ TpDone => Concatenated = tp_args.tensor_value.data

\* two ranks have each written half of a 2 x 4 rowwise weight
C2_Witness ==
    /\ tp_args.kind = "rowwise"
    /\ ~tp_args.is_bias
    /\ tp_args.world_size = 2
    /\ tp_args.tensor_value = Source2(2, 4, "index")
    /\ tp_args.param_shape = <<2, 2>>
    /\ TpDone
    /\ tp_param[1].data = <<<<3, 4>>, <<7, 8>>>>

\* the element-wise sum of the parameters of ranks 0..n
SumTo[n \in Nat] ==
    IF n = 0 THEN tp_param[0].data
    ELSE [i \in DOMAIN tp_param[0].data |-> SumTo[n - 1][i] + tp_param[n].data[i]]

\* C3: for a rowwise bias (the destination having the bias's shape), rank 0's
\* destination holds the full source bias and every rank > 0 holds all zeros, so
\* the element-wise sum of the loaded bias over all ranks equals the source bias.
C3_RowwiseBias ==
    (tp_args.kind = "rowwise" /\ tp_args.is_bias
        /\ tp_args.param_shape = tp_args.tensor_value.shape) =>
        /\ \A r \in TpRanks :
               tp_param[r].status # "unwritten" =>
                   /\ tp_param[r].status = "written"
                   /\ tp_param[r].data =
                          (IF r = 0 THEN tp_args.tensor_value.data
                           ELSE [i \in DOMAIN tp_args.tensor_value.data |-> 0])
        /\ TpDone => SumTo[tp_args.world_size - 1] = tp_args.tensor_value.data

\* three ranks have loaded a rowwise bias of three distinct elements
C3_Witness ==
    /\ tp_args.kind = "rowwise"
    /\ tp_args.is_bias
    /\ tp_args.world_size = 3
    /\ tp_args.tensor_value = Source1(3, "index")
    /\ tp_args.param_shape = <<3>>
    /\ TpDone
    /\ tp_param[2].data = <<0, 0, 0>>


(***************************************************************************)
(* Claims about load_state_dict_into_model (LoadSpec, LoadFairSpec)        *)
(***************************************************************************)
Count(q, x) == Cardinality({i \in DOMAIN q : q[i] = x})

\* the key names a parameter of the model: every segment but the last leads to a
\* child module (a segment after a ModuleList being the index of one of its
\* items) and the last one is a parameter of the module reached
RECURSIVE Locates(_, _)
Locates(module, segments) ==
    IF Len(segments) = 1 THEN segments[1] \in Parameters(module)
    ELSE /\ segments[1] \in DOMAIN Children(module)
         /\ LET child == Children(module)[segments[1]]
            IN IF IsIterable(child)
               THEN /\ Len(segments) > 2
                    /\ IntOf(segments[2]) \in 0..(Len(Items(child)) - 1)
                    /\ Locates(Items(child)[IntOf(segments[2]) + 1], Tail(Tail(segments)))
               ELSE Locates(child, Tail(segments))

Locatable(key) == Locates("root", key)

\* C4 as stated, with every unused_params list the call built taken for the
\* diagnostics it returns: after the call completes, every key that could not be
\* matched to a destination parameter is in the diagnostics exactly once and no
\* matched key is in them.
C4_AsStated ==
    pc = "Done" =>
        \A k \in Range(handled) :
            Count(handled, k) = 1 =>
                Count(diagnostics, k) = (IF Locatable(k) THEN 0 ELSE 1)

\* the raw keys consumed by an iteration that handed over a key the model holds
MatchedKeys ==
    UNION {iterations[i].partial_keys :
              i \in {j \in DOMAIN iterations :
                        \E c \in Range(iterations[j].handled) : Locatable(c)}}

\* the adapter signalled missing weights a second time, or named a key that the
\* view does not hold
Unsatisfiable == ld_error \in {"FusableWeightsMissingError", "KeyError"}

\* C5 as stated: every call whose adapter returns, or names missing keys that one
\* gather satisfies, eventually reaches Done, and at Done no map of the view
\* holds a key that was matched to a destination parameter.
C5_AsStated ==
    /\ (pc = "loop") ~> (pc = "Done" \/ Unsatisfiable)
    /\ [](pc = "Done" =>
              \A m \in DOMAIN state_dict : DOMAIN state_dict[m] \cap MatchedKeys = {})


(***************************************************************************)
(* Further claims about load_state_dict (LsdSpec)                          *)
(***************************************************************************)
\* the files the stores of rank r's view were made from, in the view's order
ViewFiles(r) == [i \in DOMAIN lsd_out[r].maps |-> lsd_out[r].maps[i].file]

Unsharded == lsd_args.checkpoint_sharding = None

\* C11 as stated: for an unsharded checkpoint found under strategy "fsdp" or
\* "hsdp", rank 0 gets a view over the checkpoint (all of its files) and every
\* other rank gets the empty result without opening any checkpoint file.
C11_AsStated ==
    (Unsharded /\ lsd_args.distributed_strategy \in {"fsdp", "hsdp"}) =>
        \A r \in Ranks :
            ReachedSelection(r) =>
                IF r = 0
                THEN lsd_out[r].result = "ChainMap" /\ ViewFiles(r) = lsd_out[r].candidates
                ELSE lsd_out[r].result = "{}" /\ Opened(r) = <<>>


\* C12: load_state_dict called with the meta target device returns the empty
\* result without any file system call, whatever the path, source, strategy,
\* sharding, rank and world size are.
C12_MetaDevice ==
    \A r \in Called :
        lsd_args.initial_device = "meta" =>
            lsd_out[r].result = "{}" /\ lsd_out[r].io = <<>> /\ lsd_out[r].maps = <<>>

\* every rank of a job was called with the meta device on a directory that holds
\* files, with a strategy the checkpoint's sharding does not go with
C12_Witness ==
    /\ lsd_args.initial_device = "meta"
    /\ lsd_args.model_path.kind = "dir"
    /\ Cardinality(lsd_args.model_path.files) >= 2
    /\ Incompatible
    /\ lsd_args.world_size >= 2
    /\ Called = Ranks
    /\ \A r \in Ranks : lsd_out[r].result = "{}"


(***************************************************************************)
(* Further claims about load_state_dict_into_model (LoadSpec)              *)
(***************************************************************************)
\* the iteration is the one an exception ended the call in
EndedIn(i, error) == i = Len(iterations) /\ pc = "Aborted" /\ ld_error = error

\* C13: in the per-key loop, when the adapter signals missing fusable weights
\* for a key, exactly the named keys are gathered from the view into the working
\* mapping that holds the key and the adapter is invoked once more (a named key
\* the view does not hold ends the call with KeyError instead); the adapter is
\* never invoked more than twice for one loop key, and a second missing-weights
\* signal is not retried: it ends the call.
C13_OneRetry ==
    \A i \in DOMAIN iterations :
        LET it == iterations[i]
        IN IF it.skipped THEN it.adapter_calls = 0
           ELSE /\ it.adapter_calls \in {1, 2}
                /\ IF it.gathered = <<>>
                   THEN it.adapter_calls = 1 /\ it.partial_keys = {it.key}
                   ELSE IF EndedIn(i, "KeyError")
                   THEN /\ it.adapter_calls = 1
                        /\ \E w \in Range(it.gathered) :
                               \A m \in DOMAIN state_dict : w \notin DOMAIN state_dict[m]
                   ELSE /\ it.adapter_calls = 2
                        /\ it.partial_keys = {it.key} \cup Range(it.gathered)
                /\ EndedIn(i, "FusableWeightsMissingError") =>
                       it.adapter_calls = 2 /\ it.handled = <<>>

\* a call is over in which the raw q weight had the raw k weight gathered for the
\* adapter's second invocation, and the loop skipped the k weight when it came to it
C13_Witness ==
    /\ pc = "Done"
    /\ \E i, j \in DOMAIN iterations :
           /\ i < j
           /\ iterations[i].key = KRawQ
           /\ iterations[i].gathered = <<KRawK>>
           /\ iterations[i].adapter_calls = 2
           /\ iterations[i].handled = <<KQuery>>
           /\ iterations[j].key = KRawK
           /\ iterations[j].skipped


\* C14 as stated: a canonical key that cannot be located in the module tree (a
\* missing intermediate attribute, a missing terminal attribute, or a segment
\* that does not index the current container) never aborts the load: no
\* exception of the locator ends the call, and the key is recorded as unused.
C14_AsStated ==
    /\ ld_error \notin {"IndexError", "ValueError"}
    /\ \A k \in Range(handled) : ~Locatable(k) => Count(diagnostics, k) >= 1


\* C15 as stated: when an attribute lookup along a key's path fails during the
\* walk, no parameter of the model is written for the key: every write is for a
\* key whose whole path leads to the parameter written.
C15_AsStated ==
    \A i \in DOMAIN writes : Locatable(writes[i].key)


\* the copy function C16 names for a key whose parameter is found
ExpectedCopy(key) ==
    LET ancestor == Walk(key, "root", None, 0).tp_module
        name     == key[Len(key) - 1]
    IN IF NeedsTpSharding(ld_args) /\ ancestor # None
       THEN IF name \in ColwiseParamNames(ancestor) THEN "_copy_colwise"
            ELSE IF name \in RowwiseParamNames(ancestor) THEN "_copy_rowwise"
            ELSE IF name \in EmbeddingParamNames(ancestor) THEN "_copy_embedding"
            ELSE "_copy_if_present"
       ELSE "_copy_if_present"

WritesFor(key) == SelectSeq(writes, LAMBDA w : w.key = key)

\* C16 as stated: every canonical key whose destination parameter is found is
\* written exactly once each time it is handed over: by the sharding function of
\* the kind its nearest TP ancestor declares for the name when TP sharding is
\* required and there is such an ancestor, and by the full copy in every other
\* case, a name the ancestor lists in none of its sets included.
C16_AsStated ==
    pc # "Aborted" =>
        \A k \in Range(handled) :
            Locatable(k) =>
                /\ Len(WritesFor(k)) = Count(handled, k)
                /\ \A i \in DOMAIN WritesFor(k) : WritesFor(k)[i].by = ExpectedCopy(k)

\* the stores of the view as it was passed that hold the key, and the entry of
\* the first of them, read
Holders(k) == {m \in DOMAIN ld_args.state_dict : k \in DOMAIN ld_args.state_dict[m]}

FirstEntry(k) ==
    LET m == CHOOSE m \in Holders(k) : \A n \in Holders(k) : m <= n
    IN Tensor(ld_args.state_dict[m][k].file, k)

\* iteration i ran its body to the end
Completed(i) == ~iterations[i].skipped /\ ~(i = Len(iterations) /\ pc = "Aborted")

\* C17: every value the loop reads from the view for a key is the entry of the
\* first store, in file order, that holds the key; and once an iteration has
\* consumed a key, no store of the view holds it any more.
C17_MergedView ==
    \A i \in DOMAIN iterations :
        /\ \A k \in DOMAIN iterations[i].partial_sd :
               /\ Holders(k) # {}
               /\ iterations[i].partial_sd[k] = FirstEntry(k)
        /\ Completed(i) =>
               \A k \in iterations[i].partial_keys, m \in DOMAIN state_dict :
                   k \notin DOMAIN state_dict[m]

\* a key held by both stores of a merged view was consumed: its value came from
\* the first file and both stores have dropped it
C17_Witness ==
    /\ ld_args.is_chain
    /\ \E i \in DOMAIN iterations :
           /\ Completed(i)
           /\ \E k \in iterations[i].partial_keys :
                  /\ Holders(k) = {1, 2}
                  /\ iterations[i].partial_sd[k].file = "f1"
                  /\ \A m \in {1, 2} : k \notin DOMAIN state_dict[m]

\* the store whose entry for k a lookup in the view answers with
FirstHolder(k) == CHOOSE m \in Holders(k) : \A n \in Holders(k) : m <= n

\* C18: during a load over a view of lazy stores, a thunk is resolved only for an
\* entry whose value is handed to the adapter, that is the entry of the first
\* store holding a key of a working mapping; listing the keys, the membership
\* test and the removal of consumed keys resolve nothing.
C18_AsStated ==
    \A i \in DOMAIN ld_reads :
        LET m == ld_reads[i][1]
            k == ld_reads[i][2]
        IN /\ m = FirstHolder(k)
           /\ \E j \in DOMAIN iterations : k \in iterations[j].partial_keys

\* every entry of every store of the view is an unresolved thunk
AllThunks(maps) == \A m \in DOMAIN maps : \A k \in DOMAIN maps[m] : maps[m][k].callable

\* C19: when the view passed holds unresolved thunks only, then at the start of
\* every iteration of the loop (and when the loop is over) no entry still in the
\* view is resolved: what an iteration materialized, it has removed.
C19_NothingResolvedKept ==
    (AllThunks(ld_args.state_dict) /\ pc \in {"loop", "Done"}) => AllThunks(state_dict)

\* a lazy view of two keys at the start of its second iteration: the first one
\* read its tensor from the file, and the other entry is still in the view
C19_Witness ==
    /\ AllThunks(ld_args.state_dict)
    /\ pc = "loop" /\ ld_pos = 2 /\ Len(sd_keys) = 2
    /\ Completed(1)
    /\ ld_reads # <<>>
    /\ \E m \in DOMAIN state_dict : sd_keys[2] \in DOMAIN state_dict[m]

\* the iterations in whose working mapping the key was
ConsumedIn(k) == {i \in DOMAIN iterations : k \in iterations[i].partial_keys}

\* C20: a raw key enters at most one working mapping, its own as the loop key or
\* that of an earlier key as a gathered dependency; the loop skips exactly the
\* keys that an earlier working mapping held; a lookup that fails is for a key the
\* view never held, never for one that was removed; and when the call returns,
\* every key of the view has been in exactly one working mapping.
C20_ConsumedOnce ==
    /\ \A k \in Range(sd_keys) : Count(sd_keys, k) = 1 /\ Holders(k) # {}
    /\ \A k \in Range(KeyOrder) : Cardinality(ConsumedIn(k)) <= 1
    /\ \A j \in DOMAIN iterations :
           /\ iterations[j].key = sd_keys[j]
           /\ iterations[j].skipped <=>
                  \E i \in 1..(j - 1) : iterations[j].key \in iterations[i].partial_keys
           /\ ~iterations[j].skipped => iterations[j].key \in iterations[j].partial_keys
           /\ iterations[j].partial_keys \subseteq Range(sd_keys)
           /\ EndedIn(j, "KeyError") =>
                  \E w \in Range(iterations[j].gathered) :
                      w \notin iterations[j].partial_keys /\ Holders(w) = {}
    /\ pc = "Done" => \A k \in Range(sd_keys) : Cardinality(ConsumedIn(k)) = 1

\* a call over a merged view is over in which a key of one store was gathered as
\* a dependency of a key of the other store, and skipped when the loop came to it
C20_Witness ==
    /\ pc = "Done" /\ ld_args.is_chain
    /\ Len(sd_keys) = 2 /\ Len(iterations) = 2
    /\ Holders(sd_keys[1]) # Holders(sd_keys[2])
    /\ iterations[1].partial_keys = Range(sd_keys)
    /\ iterations[2].skipped
    /\ \A m \in DOMAIN state_dict : DOMAIN state_dict[m] = {}

====
